---- MODULE Spec2Model ----
(***************************************************************************)
(* PoolBnB booking backend (src/main.py, src/schemas.py).                  *)
(*                                                                         *)
(* The model covers the two booking endpoints, create_booking and          *)
(* get_availability, run by a pool of request workers over one "booking"   *)
(* collection.  A time string is a sequence of one-character strings so    *)
(* that to_minutes can be modelled by what it does (split on ":", int()    *)
(* of each part, h * 60 + m).  A booking document carries the fields the   *)
(* handlers read: pool_id, date, start_time, end_time, status.             *)
(***************************************************************************)
EXTENDS Integers, Sequences, FiniteSets, TLC

\* ------------------------------------------------------------------------
\* Bounds of the exploration
\* ------------------------------------------------------------------------

\* Number of create_booking requests taken in one behaviour.
MaxBookings == 2

\* The request workers (FastAPI runs a sync handler in a thread pool).
Workers == {"w1", "w2"}

\* ------------------------------------------------------------------------
\* Input domains
\* ------------------------------------------------------------------------

Pools == {"p1", "p2"}
Dates == {"2024-06-01", "2024-06-02"}

\* schemas.Booking.status: pending|confirmed|cancelled
Statuses == {"pending", "confirmed", "cancelled"}

T0900 == <<"0", "9", ":", "0", "0">>
T0930 == <<"0", "9", ":", "3", "0">>
T1000 == <<"1", "0", ":", "0", "0">>
T1030 == <<"1", "0", ":", "3", "0">>
T1100 == <<"1", "1", ":", "0", "0">>
\* "9:5": not HH:MM, yet both parts are integers
T9c5 == <<"9", ":", "5">>
\* "ab:cd": non-numeric parts
Tabcd == <<"a", "b", ":", "c", "d">>
\* "0900": no separator
TnoSep == <<"0", "9", "0", "0">>

\* (start_time, end_time) pairs with end after start: back to back, partly
\* overlapping on either side, one containing the others
ValidRanges ==
    { <<T0900, T1000>>, <<T1000, T1100>>, <<T0930, T1030>>, <<T0900, T1100>> }

\* pairs that are not a proper HH:MM range
OddRanges ==
    { <<T1000, T1000>>, <<T1000, T0900>>, <<T9c5, T1000>>,
      <<Tabcd, T1000>>, <<T0900, TnoSep>> }

Booking(pool_id, date, start_time, end_time, status) ==
    [pool_id |-> pool_id, date |-> date,
     start_time |-> start_time, end_time |-> end_time, status |-> status]

MainPool == "p1"
MainDate == "2024-06-01"

\* ranges that meet every valid range
WideRanges == { <<T0930, T1030>>, <<T0900, T1100>> }

\* Request bodies of POST /api/bookings: every range and status for one pool
\* and date, pending bookings of the wide ranges for every pool and date,
\* and the odd ranges
Bookings ==
    { Booking(MainPool, MainDate, r[1], r[2], s) :
        r \in ValidRanges, s \in Statuses }
    \cup
    { Booking(p, d, r[1], r[2], "pending") :
        p \in Pools, d \in Dates, r \in WideRanges }
    \cup
    { Booking(MainPool, MainDate, r[1], r[2], "pending") : r \in OddRanges }
    \cup
    \* status is a free-form str: a value outside the documented three
    { Booking(MainPool, MainDate, T0900, T1000, "archived") }

\* A request of POST /api/bookings
BookingRequest(booking) == [op |-> "create_booking", booking |-> booking]

\* A request of GET /api/pools/{pool_id}/availability
AvailabilityQuery(pool_id, date) ==
    [op |-> "get_availability", pool_id |-> pool_id, date |-> date]

NoRequest == [op |-> "none"]

\* ------------------------------------------------------------------------
\* to_minutes (main.py 124-126)
\* ------------------------------------------------------------------------

Digits == {"0", "1", "2", "3", "4", "5", "6", "7", "8", "9"}

DigitVal(c) ==
    CASE c = "0" -> 0 [] c = "1" -> 1 [] c = "2" -> 2 [] c = "3" -> 3
      [] c = "4" -> 4 [] c = "5" -> 5 [] c = "6" -> 6 [] c = "7" -> 7
      [] c = "8" -> 8 [] c = "9" -> 9

MinutesPerHour == 60

ValueError == [ok |-> FALSE, val |-> 0]
Value(n) == [ok |-> TRUE, val |-> n]

\* t.split(":"): the parts of t between separators, always at least one part
RECURSIVE split(_, _)
split(t, sep) ==
    IF \A i \in 1..Len(t) : t[i] # sep
    THEN <<t>>
    ELSE LET k == CHOOSE i \in 1..Len(t) :
                      t[i] = sep /\ \A j \in 1..(i - 1) : t[j] # sep
         IN  <<SubSeq(t, 1, k - 1)>> \o split(SubSeq(t, k + 1, Len(t)), sep)

RECURSIVE DecimalValue(_)
DecimalValue(ds) ==
    IF ds = <<>> THEN 0
    ELSE 10 * DecimalValue(SubSeq(ds, 1, Len(ds) - 1)) + DigitVal(ds[Len(ds)])

\* int(s) for a string over digits, signs and letters: an optional sign and
\* at least one digit, anything else raises ValueError
int(s) ==
    LET signed == s # <<>> /\ s[1] \in {"+", "-"}
        ds     == IF signed THEN Tail(s) ELSE s
    IN  IF ds = <<>> \/ \E i \in 1..Len(ds) : ds[i] \notin Digits
        THEN ValueError
        ELSE IF signed /\ s[1] = "-" THEN Value(0 - DecimalValue(ds))
             ELSE Value(DecimalValue(ds))

\* h, m = map(int, t.split(":")); return h * 60 + m
convert(t) ==
    LET parts == split(t, ":")
    IN  IF Len(parts) # 2 THEN ValueError
        ELSE LET h == int(parts[1])
                 m == int(parts[2])
             IN  IF h.ok /\ m.ok THEN Value(h.val * MinutesPerHour + m.val)
                 ELSE ValueError

\* every time string of the input domain
TimeStrings == {r[1] : r \in ValidRanges \cup OddRanges}
                  \cup {r[2] : r \in ValidRanges \cup OddRanges}

\* the conversion of every time string, evaluated once
Converted == [t \in TimeStrings |-> convert(t)]

\* to_minutes(t): the value or the ValueError of the conversion of t
to_minutes(t) == Converted[t]

\* ------------------------------------------------------------------------
\* The booking collection
\* ------------------------------------------------------------------------

ActiveStatuses == {"pending", "confirmed"}

\* Variant: the status condition left out of the query
Matches_AnyStatus(doc, pool_id, date) ==
    /\ doc.pool_id = pool_id
    /\ doc.date = date

\* Variant: the date condition left out of the query
Matches_AnyDate(doc, pool_id, date) ==
    /\ doc.pool_id = pool_id
    /\ doc.status \in ActiveStatuses

\* db["booking"].find({"pool_id": .., "date": .., "status": {"$in": [..]}})
Matches(doc, pool_id, date) ==
    /\ doc.pool_id = pool_id
    /\ doc.date = date
    /\ doc.status \in ActiveStatuses

\* Variant: find_one in place of find
find_FirstOnly(coll, pool_id, date) ==
    LET Test(doc) == Matches(doc, pool_id, date)
        all == SelectSeq(coll, Test)
    IN  IF all = <<>> THEN <<>> ELSE <<Head(all)>>

find(coll, pool_id, date) ==
    LET Test(doc) == Matches(doc, pool_id, date)
    IN  SelectSeq(coll, Test)

\* create_document("booking", booking): the record is added to the
\* collection as given and its identifier returned
create_document(coll, booking) == Append(coll, booking)

\* projection {"start_time": 1, "end_time": 1, "_id": 0}
Project(docs) ==
    [i \in 1..Len(docs) |->
        [start_time |-> docs[i].start_time, end_time |-> docs[i].end_time]]

\* ------------------------------------------------------------------------
\* Responses
\* ------------------------------------------------------------------------

Response(code, detail) == [code |-> code, detail |-> detail, body |-> <<>>]

DatabaseNotAvailable == Response(500, "Database not available")
EndNotAfterStart     == Response(400, "End time must be after start time")
SlotAlreadyBooked    == Response(409, "Time slot already booked")
\* an exception no handler catches: the server answers 500
UnhandledValueError  == Response(500, "ValueError")
Created              == Response(200, "id")
NoResponse           == Response(0, "")

\* ------------------------------------------------------------------------
\* create_booking, the part after the read (main.py 124-141)
\* ------------------------------------------------------------------------

\* Variant: "<" in place of "<="
RangeRejected_Strict(new_start, new_end) == new_end < new_start

\* if new_end <= new_start: raise HTTPException(400, ...)
RangeRejected(new_start, new_end) == new_end <= new_start

\* Variant: only a start inside the other range counts
Overlaps_StartInside(new_start, new_end, s, e) == s <= new_start /\ new_start < e

\* Variant: "<=" and ">=" in place of "<" and ">"
Overlaps_Closed(new_start, new_end, s, e) == new_start <= e /\ new_end >= s

\* Variant: both comparisons inverted
Overlaps_Inverted(new_start, new_end, s, e) == new_start > e /\ new_end < s

\* overlap if start < other_end and end > other_start
Overlaps(new_start, new_end, s, e) == new_start < e /\ new_end > s

\* for b in existing: ... ; the response raised by the loop, or Created
RECURSIVE CheckExisting(_, _, _, _)
CheckExisting(existing, i, new_start, new_end) ==
    IF i > Len(existing) THEN Created
    ELSE LET s == to_minutes(existing[i].start_time)
             e == to_minutes(existing[i].end_time)
         IN  IF ~s.ok \/ ~e.ok THEN UnhandledValueError
             ELSE IF Overlaps(new_start, new_end, s.val, e.val)
                  THEN SlotAlreadyBooked
                  ELSE CheckExisting(existing, i + 1, new_start, new_end)

Decide(booking, existing) ==
    LET new_start == to_minutes(booking.start_time)
        new_end   == to_minutes(booking.end_time)
    IN  IF ~new_start.ok \/ ~new_end.ok THEN UnhandledValueError
        ELSE IF RangeRejected(new_start.val, new_end.val) THEN EndNotAfterStart
        ELSE CheckExisting(existing, 1, new_start.val, new_end.val)

\* Variant: the insert placed ahead of the checks
StoreAfter_Always(coll, booking, response) == create_document(coll, booking)

\* create_document is reached only when nothing was raised
StoreAfter(coll, booking, response) ==
    IF response.code = 200 THEN create_document(coll, booking) ELSE coll

\* ------------------------------------------------------------------------
\* State
\* ------------------------------------------------------------------------

VARIABLES
    dbAvailable,  \* db is not None
    store,        \* the "booking" collection, in insertion order
    pc,           \* per worker: "idle", "fetched" (after the find), "done"
    request,      \* per worker: the request being served or last served
    existing,     \* per worker: the list read by create_booking
    response,     \* per worker: the response of the last served request
    served        \* number of create_booking requests taken so far

vars == <<dbAvailable, store, pc, request, existing, response, served>>

Init ==
    /\ dbAvailable \in BOOLEAN
    /\ store = <<>>
    /\ pc = [w \in Workers |-> "idle"]
    /\ request = [w \in Workers |-> NoRequest]
    /\ existing = [w \in Workers |-> <<>>]
    /\ response = [w \in Workers |-> NoResponse]
    /\ served = 0

\* a worker that is not inside a handler takes the next request
Free(w) == pc[w] \in {"idle", "done"}

\* create_booking up to and including the read of the existing bookings
\* (main.py 113-122)
create_booking_read(w, booking) ==
    /\ Free(w)
    /\ served < MaxBookings
    /\ served' = served + 1
    /\ request' = [request EXCEPT ![w] = BookingRequest(booking)]
    /\ IF dbAvailable
       THEN /\ pc' = [pc EXCEPT ![w] = "fetched"]
            /\ existing' = [existing EXCEPT
                              ![w] = find(store, booking.pool_id, booking.date)]
            /\ response' = [response EXCEPT ![w] = NoResponse]
       ELSE /\ pc' = [pc EXCEPT ![w] = "done"]
            /\ existing' = [existing EXCEPT ![w] = <<>>]
            /\ response' = [response EXCEPT ![w] = DatabaseNotAvailable]
    /\ UNCHANGED <<dbAvailable, store>>

\* create_booking from the time conversion to the insert (main.py 124-141)
create_booking_write(w) ==
    /\ pc[w] = "fetched"
    /\ LET r == Decide(request[w].booking, existing[w])
       IN  /\ response' = [response EXCEPT ![w] = r]
           /\ store' = StoreAfter(store, request[w].booking, r)
    /\ pc' = [pc EXCEPT ![w] = "done"]
    /\ UNCHANGED <<dbAvailable, request, existing, served>>

\* get_availability (main.py 144-154)
get_availability(w, pool_id, date) ==
    /\ Free(w)
    /\ request' = [request EXCEPT ![w] = AvailabilityQuery(pool_id, date)]
    /\ existing' = [existing EXCEPT ![w] = <<>>]
    /\ pc' = [pc EXCEPT ![w] = "done"]
    /\ response' = [response EXCEPT ![w] =
            IF dbAvailable
            THEN [code |-> 200, detail |-> "bookings",
                  body |-> Project(find(store, pool_id, date))]
            ELSE DatabaseNotAvailable]
    /\ UNCHANGED <<dbAvailable, store, served>>

Next ==
    \/ \E w \in Workers, booking \in Bookings : create_booking_read(w, booking)
    \/ \E w \in Workers : create_booking_write(w)
    \/ \E w \in Workers, pool_id \in Pools, date \in Dates :
           get_availability(w, pool_id, date)

Spec == Init /\ [][Next]_vars

\* ------------------------------------------------------------------------
\* Vocabulary of the properties
\* ------------------------------------------------------------------------

StartOf(b) == to_minutes(b.start_time).val
EndOf(b)   == to_minutes(b.end_time).val
Parses(b)  == to_minutes(b.start_time).ok /\ to_minutes(b.end_time).ok

\* the minutes of the half-open slot [start, end)
Slot(b) == StartOf(b)..(EndOf(b) - 1)

Active(b) == b.status \in {"pending", "confirmed"}
SameKey(a, b) == a.pool_id = b.pool_id /\ a.date = b.date

StoreIdx == 1..Len(store)

\* the booking worker w was asked to create
Req(w) == request[w].booking

\* worker w has answered a create_booking request
BookingDone(w) == pc[w] = "done" /\ request[w].op = "create_booking"

\* ... and the request got past the store check with a valid range
ValidDone(w) ==
    /\ BookingDone(w)
    /\ dbAvailable
    /\ Parses(Req(w))
    /\ EndOf(Req(w)) > StartOf(Req(w))

Accepted(w) ==
    /\ response[w].code = 200
    /\ \E i \in StoreIdx : store[i] = Req(w)

\* worker w leaves create_booking in this step
Answers(w) == pc[w] = "fetched" /\ pc'[w] = "done"

\* ------------------------------------------------------------------------
\* C1: for every pool and date, the stored bookings whose status is pending
\* or confirmed have pairwise disjoint [start, end) minute ranges.
\* ------------------------------------------------------------------------
C1_NoConflict ==
    \A i, j \in StoreIdx :
        (i < j /\ SameKey(store[i], store[j])
               /\ Active(store[i]) /\ Active(store[j]))
            => Slot(store[i]) \cap Slot(store[j]) = {}

\* ------------------------------------------------------------------------
\* C2 as stated: every stored booking ends after it starts, and a request
\* whose end is not after its start is answered 400 "End time must be after
\* start time" whatever the state of the store.
\* ------------------------------------------------------------------------
C2_AlwaysInvalidRange ==
    /\ \A i \in StoreIdx : EndOf(store[i]) > StartOf(store[i])
    /\ \A w \in Workers :
         (BookingDone(w) /\ Parses(Req(w))
                         /\ EndOf(Req(w)) <= StartOf(Req(w)))
            => response[w] = EndNotAfterStart

\* C2 amended: every stored booking ends after it starts; a request whose
\* end is not after its start is answered 400 when the store handle is
\* available, whatever bookings exist, and 500 "Database not available"
\* when it is not; in neither case is it stored.
C2_InvalidRangeWhenStoreAvailable ==
    /\ \A i \in StoreIdx :
         Parses(store[i]) /\ EndOf(store[i]) > StartOf(store[i])
    /\ \A w \in Workers :
         (BookingDone(w) /\ Parses(Req(w))
                         /\ EndOf(Req(w)) <= StartOf(Req(w)))
            => /\ response[w] = IF dbAvailable THEN EndNotAfterStart
                                ELSE DatabaseNotAvailable
               /\ \A i \in StoreIdx : store[i] # Req(w)

\* an invalid range answered 400 while an active booking of the same pool and
\* date had been read
C2_Witness ==
    \E w \in Workers :
        /\ BookingDone(w)
        /\ Parses(Req(w))
        /\ EndOf(Req(w)) <= StartOf(Req(w))
        /\ response[w] = EndNotAfterStart
        /\ existing[w] # <<>>

\* ------------------------------------------------------------------------
\* C3: a valid-range request is answered 409 exactly when some booking it
\* read (s, e) has newStart < e and newEnd > s, and is accepted and stored
\* otherwise; what it read is exactly the pending and confirmed bookings
\* stored for its pool and date at the time of the read.
\* ------------------------------------------------------------------------
C3_Decision ==
    \A w \in Workers :
        ValidDone(w) =>
            /\ response[w] = SlotAlreadyBooked
                 <=> \E k \in 1..Len(existing[w]) :
                        /\ StartOf(Req(w)) < EndOf(existing[w][k])
                        /\ EndOf(Req(w)) > StartOf(existing[w][k])
            /\ response[w] # SlotAlreadyBooked => Accepted(w)

\* number of documents equal to doc in a list
Count(docs, doc) == Cardinality({k \in 1..Len(docs) : docs[k] = doc})

C3_ReadsActiveOfKey ==
    \A w \in Workers :
        (pc[w] # "fetched" /\ pc'[w] = "fetched") =>
            \A doc \in {store[i] : i \in StoreIdx} :
                Count(existing'[w], doc) =
                    IF SameKey(doc, request'[w].booking) /\ Active(doc)
                    THEN Count(store, doc) ELSE 0

C3_ConflictDecision == []C3_Decision /\ [][C3_ReadsActiveOfKey]_vars

\* a request that partly overlaps a stored booking was answered 409
C3_Witness ==
    \E w \in Workers :
        /\ ValidDone(w)
        /\ response[w] = SlotAlreadyBooked
        /\ \E k \in 1..Len(existing[w]) :
              /\ StartOf(existing[w][k]) < StartOf(Req(w))
              /\ StartOf(Req(w)) < EndOf(existing[w][k])
              /\ EndOf(existing[w][k]) < EndOf(Req(w))

\* ------------------------------------------------------------------------
\* C4: a valid-range request that only touches the bookings it read at an
\* end point (one ends where it starts, or starts where it ends) and
\* otherwise lies clear of them is accepted.
\* ------------------------------------------------------------------------
Touches(a, b) == EndOf(a) = StartOf(b) \/ EndOf(b) = StartOf(a)
Clear(a, b)   == EndOf(a) <= StartOf(b) \/ EndOf(b) <= StartOf(a)

C4_AdjacentAccepted ==
    \A w \in Workers :
        ( /\ ValidDone(w)
          /\ \E k \in 1..Len(existing[w]) : Touches(existing[w][k], Req(w))
          /\ \A k \in 1..Len(existing[w]) : Clear(existing[w][k], Req(w)) )
        => Accepted(w)

\* a request starting at the minute a stored active booking ends was accepted
C4_Witness ==
    \E w \in Workers :
        /\ ValidDone(w)
        /\ Accepted(w)
        /\ \E k \in 1..Len(existing[w]) :
              EndOf(existing[w][k]) = StartOf(Req(w))

\* ------------------------------------------------------------------------
\* C5: a request is never answered 409 when every stored booking of its pool
\* and date that its range meets has a status other than pending or
\* confirmed.
\* ------------------------------------------------------------------------
\* two slots share a minute: the later start lies before the earlier end
Later(m, n)   == IF m >= n THEN m ELSE n
Earlier(m, n) == IF m <= n THEN m ELSE n
Meets(a, b) ==
    Later(StartOf(a), StartOf(b)) < Earlier(EndOf(a), EndOf(b))

C5_CancelledNeverBlocks ==
    \A w \in Workers :
        ( /\ BookingDone(w)
          /\ \A i \in StoreIdx :
                (SameKey(store[i], Req(w)) /\ Meets(store[i], Req(w)))
                    => ~Active(store[i]) )
        => response[w] # SlotAlreadyBooked

\* a request was accepted although a cancelled booking with the same pool,
\* date and times had been stored before it
C5_Witness ==
    \E w \in Workers :
        /\ ValidDone(w)
        /\ Accepted(w)
        /\ Active(Req(w))
        /\ Len(store) = 2
        /\ store[2] = Req(w)
        /\ store[1] = [Req(w) EXCEPT !.status = "cancelled"]

\* ------------------------------------------------------------------------
\* C6: a request is never answered 409 when every stored active booking
\* that its range meets belongs to another pool or another date.
\* ------------------------------------------------------------------------
C6_PoolDateIsolation ==
    \A w \in Workers :
        ( /\ BookingDone(w)
          /\ \A i \in StoreIdx :
                (Active(store[i]) /\ Meets(store[i], Req(w)))
                    => \/ store[i].pool_id # Req(w).pool_id
                       \/ store[i].date # Req(w).date )
        => response[w] # SlotAlreadyBooked

\* a request was accepted although an active booking with the same pool and
\* times but another date had been stored before it
C6_Witness ==
    \E w \in Workers :
        /\ ValidDone(w)
        /\ Accepted(w)
        /\ Len(store) = 2
        /\ store[2] = Req(w)
        /\ Active(store[1])
        /\ store[1].pool_id = Req(w).pool_id
        /\ store[1].date # Req(w).date
        /\ Meets(store[1], Req(w))

\* ------------------------------------------------------------------------
\* C7: a request whose start or end time is not an HH:MM string gets a
\* client error (4xx) and no booking is stored for it.
\* ------------------------------------------------------------------------
WellFormedTime(t) ==
    /\ Len(t) = 5
    /\ t[3] = ":"
    /\ \A k \in {1, 2, 4, 5} : t[k] \in Digits

C7_InvalidTimeFormat ==
    \A w \in Workers :
        ( /\ BookingDone(w)
          /\ dbAvailable
          /\ \/ ~WellFormedTime(Req(w).start_time)
             \/ ~WellFormedTime(Req(w).end_time) )
        => /\ response[w].code \in 400..499
           /\ \A i \in StoreIdx : store[i] # Req(w)

\* ------------------------------------------------------------------------
\* C8: get_availability answers exactly the (start_time, end_time) pairs of
\* the stored pending and confirmed bookings of the pool and date; and a
\* valid-range create_booking that read the bookings an availability answer
\* lists is accepted exactly when its range overlaps none of the listed
\* ranges.
\* ------------------------------------------------------------------------
RangeOf(doc) == [start_time |-> doc.start_time, end_time |-> doc.end_time]

QueryDone(w) ==
    /\ pc[w] = "done"
    /\ request[w].op = "get_availability"
    /\ response[w].code = 200

C8_AnswerIsExact ==
    \A w \in Workers :
        ( /\ dbAvailable
          /\ request'[w].op = "get_availability"
          /\ <<request[w], response[w]>> # <<request'[w], response'[w]>> )
        => /\ response'[w].code = 200
           /\ \A r \in {RangeOf(store[i]) : i \in StoreIdx}
                        \cup {response'[w].body[k] :
                                 k \in 1..Len(response'[w].body)} :
                 Cardinality({k \in 1..Len(response'[w].body) :
                                 response'[w].body[k] = r})
                 = Cardinality({i \in StoreIdx :
                                 /\ store[i].pool_id = request'[w].pool_id
                                 /\ store[i].date = request'[w].date
                                 /\ Active(store[i])
                                 /\ RangeOf(store[i]) = r})

Lists(q, w) ==
    /\ Len(response[q].body) = Len(existing[w])
    /\ \A k \in 1..Len(existing[w]) :
          response[q].body[k] = RangeOf(existing[w][k])

C8_AcceptedIffFree ==
    \A w, q \in Workers :
        ( /\ ValidDone(w)
          /\ QueryDone(q)
          /\ request[q].pool_id = Req(w).pool_id
          /\ request[q].date = Req(w).date
          /\ Lists(q, w) )
        => ( Accepted(w)
               <=> \A k \in 1..Len(response[q].body) :
                      Clear(response[q].body[k], Req(w)) )

C8_Availability == [][C8_AnswerIsExact]_vars /\ []C8_AcceptedIffFree

\* an availability answer lists one booking and a request of the same pool
\* and date that read that booking was answered 409
C8_Witness ==
    \E w, q \in Workers :
        /\ ValidDone(w)
        /\ QueryDone(q)
        /\ request[q].pool_id = Req(w).pool_id
        /\ request[q].date = Req(w).date
        /\ Len(response[q].body) = 1
        /\ Lists(q, w)
        /\ response[w] = SlotAlreadyBooked

\* ------------------------------------------------------------------------
\* C9: two requests in flight together can both be accepted with
\* overlapping ranges (the witness); a request is accepted into a conflict
\* only when the store holds more active bookings of its pool and date than
\* the request read, that is when another insert fell between its read and
\* its write.
\* ------------------------------------------------------------------------
C9_ConflictOnlyByRace ==
    [][ \A w \in Workers :
          ( /\ Answers(w)
            /\ response'[w].code = 200
            /\ Active(Req(w))
            /\ \E i \in StoreIdx :
                  /\ SameKey(store[i], Req(w))
                  /\ Active(store[i])
                  /\ Meets(store[i], Req(w)) )
          => Len(existing[w])
               < Cardinality({i \in StoreIdx :
                                SameKey(store[i], Req(w)) /\ Active(store[i])})
      ]_vars

\* both workers were answered 200 for active bookings of one pool and date
\* whose ranges overlap, and both bookings are stored
C9_Witness ==
    \E w, v \in Workers :
        /\ w # v
        /\ ValidDone(w) /\ ValidDone(v)
        /\ response[w].code = 200 /\ response[v].code = 200
        /\ Active(Req(w)) /\ Active(Req(v))
        /\ SameKey(Req(w), Req(v))
        /\ Meets(Req(w), Req(v))
        /\ existing[w] = <<>> /\ existing[v] = <<>>
        /\ store = <<Req(w), Req(v)>>

\* ------------------------------------------------------------------------
\* C10: a step changes the store only by appending the booking of a request
\* that is answered 200 in that step; a request answered otherwise, and any
\* availability query, leaves the store as it was.
\* ------------------------------------------------------------------------
\* worker w takes this step
Acts(w) ==
    <<pc[w], request[w], existing[w], response[w]>>
        # <<pc'[w], request'[w], existing'[w], response'[w]>>

C10_Frame ==
    [][ /\ Len(store') \in {Len(store), Len(store) + 1}
        /\ \A i \in StoreIdx : store'[i] = store[i]
        /\ Len(store') = Len(store) + 1
             => \E w \in Workers :
                   /\ Answers(w)
                   /\ response'[w].code = 200
                   /\ store'[Len(store')] = Req(w)
        /\ \A w \in Workers :
              /\ (Answers(w) /\ response'[w].code = 200)
                    => Len(store') = Len(store) + 1
              /\ (Acts(w) /\ ~(Answers(w) /\ response'[w].code = 200))
                    => store' = store
      ]_vars

\* one request was answered 200 and another 409, and the store holds the
\* accepted booking alone
C10_Witness ==
    \E w, v \in Workers :
        /\ BookingDone(w) /\ BookingDone(v)
        /\ response[w] = SlotAlreadyBooked
        /\ response[v].code = 200
        /\ store = <<Req(v)>>

====
